---- MODULE Spec2Model ----
(***************************************************************************)
(* Motion-triggered capture controller (detect_capture.py).                *)
(*                                                                         *)
(* The controller is one single-threaded loop.  The model follows it from  *)
(* one blocking point to the next: the head of the outer (idle) loop, the  *)
(* head of the inner (armed) loop, the three calls of the finalization     *)
(* (stop_recording, wrap_h264_to_mp4, os.remove), the cooldown sleep and   *)
(* the state left by the except/finally teardown.  The wall clock is       *)
(* counted in whole seconds, the resolution of the clip timestamp.  A      *)
(* capture with inference and a poll delay each take 0..MaxStep seconds;   *)
(* the time the finalization calls take is counted in the delay of the     *)
(* cooldown that follows them.                                             *)
(***************************************************************************)
EXTENDS Integers, Sequences, FiniteSets

\* ---------------------------------------------------------------- bounds
MaxStep == 1
StartTime == 11
ShortHorizon == 29
RestartHorizon == 25
LongSlack == 4
MaxSessions == 2
MaxRuns == 2
MaxBoxes == 2
SecondsPerDay == 20

\* ------------------------------------------------- configuration (source)
MAX_DURATION == 45
NO_PRESENCE_TIMEOUT == 6
check_interval == 10
NightThreshold == 40
COOLDOWN == 2

TARGET_CLASSES == {"person", "bird"}

None == "None"

\* Mean luma of the frames the illumination sampler may see (0..255 scale).
LumaSamples == {39, 40}

\* What the detection model may output for one box: (label, confidence), the
\* confidence as the text the log carries.
Cat == [label |-> "cat", conf |-> "0.90"]
Bird == [label |-> "bird", conf |-> "0.82"]
Person == [label |-> "person", conf |-> "0.45"]

\* The model's native output for one frame: a list of boxes, in its order.
Candidates == { <<>>, <<Cat>>, <<Cat, Bird>>, <<Person, Bird>> }

\* Every list of at most MaxBoxes boxes the model may output, and the mean
\* luma of the frames it may be given.
BoxLists ==
  UNION { [1..n -> [label : {"cat", "bird", "person"},
                    conf : {"0.45", "0.82", "0.90"}]] : n \in 0..MaxBoxes }

FrameLumas == {25, 39, 40, 200}

Header == <<"timestamp", "label", "confidence", "video_path">>

VARIABLES
  budget,              \* exploration budget of this behaviour (never changes)
  clock,               \* time.time(), whole seconds
  pc,                  \* position of the main loop
  run,                 \* number of the process run (restarts)
  daily_video_dir,     \* date directory computed at process start
  last_check,          \* global last_check
  is_night_mode,       \* global is_night_mode
  brightness,          \* mean luma of the last frame_check ({} before the first)
  ir_cut,              \* level driven on IR_CUT_GPIO
  pir,                 \* last level read on PIR_GPIO
  label,               \* main loop variable label
  confidence,          \* main loop variable confidence
  conf,                \* main loop variable conf (armed polls)
  timestamp,           \* main loop variable timestamp
  video_path,          \* main loop variable video_path
  start_time,          \* main loop variable start_time
  last_presence_time,  \* main loop variable last_presence_time
  recording,           \* working paths the encoder is currently writing
  camera,              \* picam2 state
  flag,                \* STATUS_RECORDING_FILE exists
  log,                 \* logs/detections.csv
  files,               \* files under videos/
  remux_ok,            \* exit status of the last ffmpeg run was zero
  started,             \* number of start_recording calls so far
  finalized,           \* number of stop_recording calls so far
  boxes,               \* recognize_targets: the model's output for the frame
  frame                \* the frame of the tick: mean luma, and whether enhanced

vars ==
  << budget, clock, pc, run, daily_video_dir, last_check, is_night_mode, brightness,
     ir_cut, pir, label, confidence, conf, timestamp, video_path, start_time,
     last_presence_time, recording, camera, flag, log, files, remux_ok,
     started, finalized, boxes, frame >>

\* ----------------------------------------------------------- pure helpers

\* datetime.now().strftime("%Y-%m-%d") of a clock value.
DateOf(t) == t \div SecondsPerDay

\* A file name without the timestamp.
RawPath_NoTimestamp(dir, ts, target_detect) ==
  [dir |-> dir, ts |-> 0, label |-> target_detect, ext |-> "h264"]

\* os.path.join(daily_video_dir, f"{timestamp}_{target_detect}.h264")
RawPath(dir, ts, target_detect) ==
  [dir |-> dir, ts |-> ts, label |-> target_detect, ext |-> "h264"]

\* path.replace(".h264", ".mp4")
ToMp4(path) == [path EXCEPT !.ext = "mp4"]

NoPath == [dir |-> 0, ts |-> 0, label |-> None, ext |-> "none"]

\* recognize_targets: first box, in the model's order, whose label is in
\* TARGET_CLASSES; (None, None) when there is none.
RECURSIVE FirstTarget(_, _)
FirstTarget(cands, i) ==
  IF i > Len(cands) THEN [label |-> None, conf |-> None]
  ELSE IF cands[i].label \in TARGET_CLASSES
       THEN [label |-> cands[i].label, conf |-> cands[i].conf]
       ELSE FirstTarget(cands, i + 1)

\* A scan without the early return: the last target box wins.
recognize_targets_Last(cands) ==
  LET hits == { i \in 1..Len(cands) : cands[i].label \in TARGET_CLASSES }
      k == CHOOSE i \in hits : \A j \in hits : j <= i
  IN  IF hits = {} THEN [label |-> None, conf |-> None]
      ELSE [label |-> cands[k].label, conf |-> cands[k].conf]

recognize_targets(cands) == FirstTarget(cands, 1)

\* A loop that takes every label, None included, for a detection.
Truthy_AnyLabel(l) == TRUE

\* Python truth value of a label: "if label:".
Truthy(l) == l # None

\* A night test that counts the threshold itself as night.
is_night_frame_Inclusive(mean) == mean <= NightThreshold

\* is_night_frame: mean brightness strictly below the threshold.
is_night_frame(mean) == mean < NightThreshold

\* A refresh on every tick.
RefreshDue_Always(now, lc) == TRUE

\* Outer loop, "now - last_check > check_interval".
RefreshDue(now, lc) == now - lc > check_interval

\* An armed loop without the duration cap ("while True").
WithinMaxDuration_Always(t, st) == TRUE

\* A loop test that still passes when MAX_DURATION has just elapsed.
WithinMaxDuration_Inclusive(t, st) == t - st <= MAX_DURATION

\* Inner loop test, "time.time() - start_time < MAX_DURATION".
WithinMaxDuration(t, st) == t - st < MAX_DURATION

\* An inactivity test that fires at the timeout itself.
InactivityExpired_Inclusive(t, lp) == t - lp >= NO_PRESENCE_TIMEOUT

\* Inner loop, "time.time() - last_presence_time > NO_PRESENCE_TIMEOUT".
InactivityExpired(t, lp) == t - lp > NO_PRESENCE_TIMEOUT

\* Inner loop, "if label: last_presence_time = time.time()".
NextPresence(l, t, lp) == IF Truthy(l) THEN t ELSE lp

\* A logger that writes the header only when the file did not exist.
log_detection_NoSizeTest(lg, ts, l, c, path) ==
  LET row == <<ts, l, c, path>>
      head == IF ~lg.exists THEN <<Header>> ELSE <<>>
  IN  [exists |-> TRUE, lines |-> lg.lines \o head \o <<row>>]

\* log_detection: header when the file is new or empty, then one row.
log_detection(lg, ts, l, c, path) ==
  LET file_exists == lg.exists
      row == <<ts, l, c, path>>
      head == IF ~file_exists \/ Len(lg.lines) = 0 THEN <<Header>> ELSE <<>>
  IN  [exists |-> TRUE, lines |-> lg.lines \o head \o <<row>>]

\* set_recording_status: the flag file exists afterwards iff active.
set_recording_status(active) == active

\* A stop that leaves the encoder running.
picam2_stop_recording_Skipped(rec) == rec

\* picam2.stop_recording(): nothing is being encoded afterwards.
picam2_stop_recording(rec) == {}

\* A pin driven the wrong way round.
IrCutLevel_Inverted(night) == IF night THEN "LOW" ELSE "HIGH"

\* Lines 126-129: the level driven on the infrared-cut pin.
IrCutLevel(night) == IF night THEN "HIGH" ELSE "LOW"

\* No frame captured yet.
NoFrame == [luma |-> 0, enhanced |-> FALSE]

\* A preprocessing that enhances every frame it is given.
preprocess_frame_Always(f) == [f EXCEPT !.enhanced = TRUE]

\* preprocess_frame: contrast enhancement of a frame that is itself dark.
preprocess_frame(f) ==
  IF is_night_frame(f.luma) THEN [f EXCEPT !.enhanced = TRUE] ELSE f

\* Lines 135-136 and 148-149: "if is_night_mode: frame = preprocess_frame(frame)".
DetectorInput(night, f) == IF night THEN preprocess_frame(f) ELSE f

\* os.remove(video_path) at the end of the finalization: unconditional.
RemoveRaw(fs, path) == fs \ {path}

\* ------------------------------------------------------------------- Init

\* What one behaviour may explore: the clock's horizon, the number of sessions
\* and of process runs, and how long one idle tick (or the pause before a
\* restart) may take.  A long session, two sessions in one run, and sessions
\* across a restart each get a budget of their own.
LongHorizon == StartTime + MAX_DURATION + COOLDOWN + LongSlack

LongBudget ==
  [horizon |-> LongHorizon, sessions |-> 1, runs |-> 1, idle_step |-> 0]

Budgets ==
  { LongBudget,
    [horizon |-> ShortHorizon, sessions |-> MaxSessions, runs |-> 1,
     idle_step |-> MaxStep],
    [horizon |-> RestartHorizon, sessions |-> MaxSessions, runs |-> MaxRuns,
     idle_step |-> 0] }

Init ==
  /\ budget \in Budgets
  /\ clock = StartTime
  /\ pc = "idle"
  /\ run = 1
  /\ daily_video_dir = DateOf(StartTime)
  /\ last_check = 0
  /\ is_night_mode = FALSE
  /\ brightness = {}
  /\ ir_cut = "unset"
  /\ pir = FALSE
  /\ label = None
  /\ confidence = None
  /\ conf = None
  /\ timestamp = 0
  /\ video_path = NoPath
  /\ start_time = 0
  /\ last_presence_time = 0
  /\ recording = {}
  /\ camera = "started"
  /\ flag = FALSE
  /\ log \in { [exists |-> FALSE, lines |-> <<>>], [exists |-> TRUE, lines |-> <<>>] }
  /\ files = {}
  /\ remux_ok = TRUE
  /\ started = 0
  /\ finalized = 0
  /\ boxes = <<>>
  /\ frame = NoFrame

\* ---------------------------------------------------------------- actions

\* Lines 120-129: the illumination refresh at the head of an idle tick.
Refreshed(now, mean) ==
  IF RefreshDue(now, last_check)
  THEN [night |-> is_night_frame(mean), mean |-> {mean}, lc |-> now,
        ir |-> IrCutLevel(is_night_frame(mean))]
  ELSE [night |-> is_night_mode, mean |-> brightness, lc |-> last_check,
        ir |-> ir_cut]

\* One tick of the outer loop in which the sensor is low (lines 120-131, 166).
IdleQuiet ==
  /\ pc = "idle"
  /\ \E mean \in LumaSamples, d \in 0..budget.idle_step :
       LET r == Refreshed(clock, mean) IN
       /\ clock + d <= budget.horizon
       /\ is_night_mode' = r.night
       /\ brightness' = r.mean
       /\ last_check' = r.lc
       /\ ir_cut' = r.ir
       /\ pir' = FALSE
       /\ clock' = clock + d
  /\ UNCHANGED << boxes, frame, budget, pc, run, daily_video_dir, label, confidence, conf, timestamp,
                  video_path, start_time, last_presence_time, recording, camera,
                  flag, log, files, remux_ok, started, finalized >>

\* One tick of the outer loop in which the sensor is high (lines 120-143, 166):
\* refresh, capture, detect and, on a match, start_recording.
IdleDetect ==
  /\ pc = "idle"
  /\ \E mean \in LumaSamples, cands \in Candidates, d \in 0..budget.idle_step :
       LET r == Refreshed(clock, mean)
           det == recognize_targets(cands)
           t == clock + d
           path == RawPath(daily_video_dir, t, det.label)
       IN
       /\ t <= budget.horizon
       /\ is_night_mode' = r.night
       /\ brightness' = r.mean
       /\ last_check' = r.lc
       /\ ir_cut' = r.ir
       /\ pir' = TRUE
       /\ label' = det.label
       /\ confidence' = det.conf
       /\ clock' = t
       /\ IF Truthy(det.label)
          THEN /\ started < budget.sessions
               /\ timestamp' = t
               /\ flag' = set_recording_status(TRUE)
               /\ video_path' = path
               /\ files' = files \cup {path}
               /\ recording' = recording \cup {path}
               /\ start_time' = t
               /\ last_presence_time' = t
               /\ started' = started + 1
               /\ pc' = "armed"
          ELSE /\ pc' = "idle"
               /\ UNCHANGED << boxes, frame, budget, timestamp, flag, video_path, files, recording,
                               start_time, last_presence_time, started >>
  /\ UNCHANGED << boxes, frame, budget, run, daily_video_dir, conf, camera, log, remux_ok, finalized >>

\* One iteration of the inner loop (lines 145-158).
ArmedPoll ==
  /\ pc = "armed"
  /\ WithinMaxDuration(clock, start_time)
  /\ \E cands \in Candidates, dd \in 0..MaxStep, ds \in 0..MaxStep :
       LET det == recognize_targets(cands)
           t == clock + dd
       IN
       /\ t + ds <= budget.horizon
       /\ label' = det.label
       /\ conf' = det.conf
       /\ last_presence_time' = NextPresence(det.label, t, last_presence_time)
       /\ IF ~Truthy(det.label) /\ InactivityExpired(t, last_presence_time)
          THEN /\ clock' = t
               /\ pc' = "stopping"
          ELSE /\ clock' = t + ds
               /\ pc' = "armed"
  /\ UNCHANGED << boxes, frame, budget, run, daily_video_dir, last_check, is_night_mode, brightness,
                  ir_cut, pir, confidence, timestamp, video_path, start_time,
                  recording, camera, flag, log, files, remux_ok, started,
                  finalized >>

\* The inner loop test fails (line 145): the duration cap.
LoopExit ==
  /\ pc = "armed"
  /\ ~WithinMaxDuration(clock, start_time)
  /\ pc' = "stopping"
  /\ UNCHANGED << boxes, frame, budget, clock, run, daily_video_dir, last_check, is_night_mode,
                  brightness, ir_cut, pir, label, confidence, conf, timestamp,
                  video_path, start_time, last_presence_time, recording, camera,
                  flag, log, files, remux_ok, started, finalized >>

\* A stop that logs conf, the confidence of the latest armed poll.
StopRecording_LogsConf ==
  /\ pc = "stopping"
  /\ recording' = picam2_stop_recording(recording)
  /\ camera' = "stopped"
  /\ log' = log_detection(log, timestamp, label, conf, ToMp4(video_path))
  /\ flag' = set_recording_status(FALSE)
  /\ finalized' = finalized + 1
  /\ pc' = "remux"
  /\ UNCHANGED << boxes, frame, budget, clock, run, daily_video_dir, last_check, is_night_mode,
                  brightness, ir_cut, pir, label, confidence, conf, timestamp,
                  video_path, start_time, last_presence_time, files, remux_ok,
                  started >>

\* Line 160: stop_recording(video_path, label, confidence, timestamp).
\* picam2.stop_recording() stops the camera together with the encoder, and
\* nothing in stop_recording configures or starts it again.
StopRecording ==
  /\ pc = "stopping"
  /\ recording' = picam2_stop_recording(recording)
  /\ camera' = "stopped"
  /\ log' = log_detection(log, timestamp, label, confidence, ToMp4(video_path))
  /\ flag' = set_recording_status(FALSE)
  /\ finalized' = finalized + 1
  /\ pc' = "remux"
  /\ UNCHANGED << boxes, frame, budget, clock, run, daily_video_dir, last_check, is_night_mode,
                  brightness, ir_cut, pir, label, confidence, conf, timestamp,
                  video_path, start_time, last_presence_time, files, remux_ok,
                  started >>

\* Line 161: wrap_h264_to_mp4(video_path); the exit status is not looked at.
Remux ==
  /\ pc = "remux"
  /\ \E ok \in BOOLEAN :
       /\ remux_ok' = ok
       /\ files' = IF ok THEN files \cup {ToMp4(video_path)} ELSE files
  /\ pc' = "remove"
  /\ UNCHANGED << boxes, frame, budget, clock, run, daily_video_dir, last_check, is_night_mode,
                  brightness, ir_cut, pir, label, confidence, conf, timestamp,
                  video_path, start_time, last_presence_time, recording, camera,
                  flag, log, started, finalized >>

\* Lines 162-163: os.remove(video_path).
Remove ==
  /\ pc = "remove"
  /\ files' = RemoveRaw(files, video_path)
  /\ pc' = "cooldown"
  /\ UNCHANGED << boxes, frame, budget, clock, run, daily_video_dir, last_check, is_night_mode,
                  brightness, ir_cut, pir, label, confidence, conf, timestamp,
                  video_path, start_time, last_presence_time, recording, camera,
                  flag, log, remux_ok, started, finalized >>

\* Lines 164-166: time.sleep(2), then the tick's time.sleep(0.1).  The loop
\* variables of the session are dead from here on (each is assigned again
\* before it is next read), so the model clears them.
Cooldown ==
  /\ pc = "cooldown"
  /\ \E d \in 0..MaxStep :
       /\ clock + COOLDOWN + d <= budget.horizon
       /\ clock' = clock + COOLDOWN + d
  /\ pc' = "idle"
  /\ label' = None
  /\ confidence' = None
  /\ conf' = None
  /\ timestamp' = 0
  /\ video_path' = NoPath
  /\ start_time' = 0
  /\ last_presence_time' = 0
  /\ UNCHANGED << boxes, frame, budget, run, daily_video_dir, last_check, is_night_mode,
                  brightness, ir_cut, pir, recording, camera, flag, log, files,
                  remux_ok, started, finalized >>

\* A teardown that finalizes the session it interrupts.
Shutdown_Finalizing ==
  /\ pc # "done"
  /\ pc' = "done"
  /\ camera' = "stopped"
  /\ ir_cut' = "unset"
  /\ recording' = {}
  /\ last_check' = 0
  /\ is_night_mode' = FALSE
  /\ brightness' = {}
  /\ pir' = FALSE
  /\ label' = None
  /\ confidence' = None
  /\ conf' = None
  /\ timestamp' = 0
  /\ video_path' = NoPath
  /\ start_time' = 0
  /\ last_presence_time' = 0
  /\ IF recording # {}
     THEN /\ log' = log_detection(log, timestamp, label, confidence,
                                  ToMp4(video_path))
          /\ finalized' = finalized + 1
     ELSE UNCHANGED << log, finalized >>
  /\ UNCHANGED << boxes, frame, budget, clock, run, daily_video_dir, flag,
                  files, remux_ok, started >>

\* Lines 168-173: KeyboardInterrupt (or a fatal error) anywhere in the loop;
\* the finally block stops the camera and releases the pins, and the process
\* ends: its variables are gone and nothing is encoding any more.  The file
\* system is left as it is.
Shutdown ==
  /\ pc # "done"
  /\ pc' = "done"
  /\ camera' = "stopped"
  /\ ir_cut' = "unset"
  /\ recording' = {}
  /\ last_check' = 0
  /\ is_night_mode' = FALSE
  /\ brightness' = {}
  /\ pir' = FALSE
  /\ label' = None
  /\ confidence' = None
  /\ conf' = None
  /\ timestamp' = 0
  /\ video_path' = NoPath
  /\ start_time' = 0
  /\ last_presence_time' = 0
  /\ UNCHANGED << boxes, frame, budget, clock, run, daily_video_dir, flag, log, files,
                  remux_ok, started, finalized >>

\* The supervisor starts the program again (lines 18-43): globals and loop
\* variables are fresh, the file system is what the last run left.
Restart ==
  /\ pc = "done"
  /\ run < budget.runs
  /\ \E d \in 0..budget.idle_step :
       /\ clock + d <= budget.horizon
       /\ clock' = clock + d
       /\ daily_video_dir' = DateOf(clock + d)
  /\ run' = run + 1
  /\ pc' = "idle"
  /\ camera' = "started"
  /\ UNCHANGED << boxes, frame, budget, last_check, is_night_mode, brightness, ir_cut, pir,
                  label, confidence, conf, timestamp, video_path, start_time,
                  last_presence_time, recording, flag, log, files, remux_ok,
                  started, finalized >>

Next ==
  \/ IdleQuiet
  \/ IdleDetect
  \/ ArmedPoll
  \/ LoopExit
  \/ StopRecording
  \/ Remux
  \/ Remove
  \/ Cooldown
  \/ Shutdown
  \/ Restart

Spec == Init /\ [][Next]_vars

\* ------------------------------------------- the loop left to run (no shutdown)
\* One session that may last up to the cap, with no external shutdown.  Every
\* call of the loop returns, so the loop always takes its next step, and every
\* armed iteration takes time (capture, inference, time.sleep(0.05)), so the
\* clock moves on while the loop polls.

InitLive == Init /\ budget = LongBudget

NextLive ==
  \/ IdleQuiet
  \/ IdleDetect
  \/ ArmedPoll
  \/ LoopExit
  \/ StopRecording
  \/ Remux
  \/ Remove
  \/ Cooldown

LiveSpec ==
  /\ InitLive
  /\ [][NextLive]_vars
  /\ WF_vars(ArmedPoll /\ clock' > clock)
  /\ WF_vars(LoopExit)
  /\ WF_vars(StopRecording)
  /\ WF_vars(Remux)
  /\ WF_vars(Remove)
  /\ WF_vars(Cooldown)

\* ------------------------------------------------ one frame, lines 133-138
\* One captured frame on its way through the preprocessing and the detector,
\* for every illumination mode, frame brightness and model output.  (In Spec
\* the loop sees any result the detector may give; the frame and the model's
\* raw output are local to the tick and are not carried there.)

InitFrame ==
  /\ budget = LongBudget
  /\ clock = StartTime
  /\ pc = "captured"
  /\ run = 1
  /\ daily_video_dir = DateOf(StartTime)
  /\ last_check = StartTime
  /\ is_night_mode \in BOOLEAN
  /\ brightness = {}
  /\ ir_cut = IrCutLevel(is_night_mode)
  /\ pir = TRUE
  /\ label = None
  /\ confidence = None
  /\ conf = None
  /\ timestamp = 0
  /\ video_path = NoPath
  /\ start_time = 0
  /\ last_presence_time = 0
  /\ recording = {}
  /\ camera = "started"
  /\ flag = FALSE
  /\ log = [exists |-> FALSE, lines |-> <<>>]
  /\ files = {}
  /\ remux_ok = TRUE
  /\ started = 0
  /\ finalized = 0
  /\ boxes \in BoxLists
  /\ frame \in [luma : FrameLumas, enhanced : {FALSE}]

\* Lines 135-136 (148-149 in the armed loop).
Preprocess ==
  /\ pc = "captured"
  /\ frame' = DetectorInput(is_night_mode, frame)
  /\ pc' = "preprocessed"
  /\ UNCHANGED << boxes, budget, clock, run, daily_video_dir, last_check,
                  is_night_mode, brightness, ir_cut, pir, label, confidence,
                  conf, timestamp, video_path, start_time, last_presence_time,
                  recording, camera, flag, log, files, remux_ok, started,
                  finalized >>

\* Line 151 (138 in the idle loop): label, conf = recognize_targets(frame).
Recognize ==
  /\ pc = "preprocessed"
  /\ label' = recognize_targets(boxes).label
  /\ conf' = recognize_targets(boxes).conf
  /\ pc' = "detected"
  /\ UNCHANGED << boxes, frame, budget, clock, run, daily_video_dir, last_check,
                  is_night_mode, brightness, ir_cut, pir, confidence, timestamp,
                  video_path, start_time, last_presence_time, recording,
                  camera, flag, log, files, remux_ok, started, finalized >>

NextFrame ==
  \/ Preprocess
  \/ Recognize

FrameSpec == InitFrame /\ [][NextFrame]_vars

\* ----------------------------------------------------------------- claims

\* A line of the log is the header when its fields are the column names.
IsHeader(line) == line[2] = Header[2]

\* The rows of the event log after the header.
Rows == IF Len(log.lines) <= 1 THEN {} ELSE 2..Len(log.lines)

\* Duration bound of one armed iteration: capture and inference, then the
\* poll delay.
IterationMax == 2 * MaxStep

\* C1: outside the start and stop transitions (idle, armed polling, cooldown,
\* and after the teardown), the status flag file exists iff a session is
\* Active.
C1_FlagIffActive ==
  pc \in {"idle", "armed", "cooldown", "done"} => (flag <=> recording # {})

\* C2: a finalized session has appended exactly one row, and its raw working
\* file is removed when, and only when, the remux succeeded.
C2_RawRemovedIffRemuxOk ==
  pc = "cooldown" =>
    /\ Len(log.lines) = finalized + 1
    /\ (video_path \notin files) <=> remux_ok

\* C3: the label of every row is the label the session started with, the one
\* that names the clip.
C3_RowLabelIsStartLabel ==
  \A i \in Rows : log.lines[i][2] = log.lines[i][4].label

\* C4: while the encoder of a session started at T runs, the clock has not
\* passed T + MAX_DURATION.
C4_StoppedByMaxDuration ==
  recording # {} => clock - start_time <= MAX_DURATION

\* C4 (amended): no armed iteration begins once MAX_DURATION has elapsed, so
\* the encoder still runs only before T + MAX_DURATION plus the duration of
\* one armed iteration.
C4_StoppedWithinOneIteration ==
  recording # {} => clock - start_time < MAX_DURATION + IterationMax

C4_Witness ==
  /\ pc = "stopping"
  /\ label # None
  /\ clock - start_time > MAX_DURATION

\* C5: the loop is left for inactivity only when strictly more than
\* NO_PRESENCE_TIMEOUT has passed since last_presence_time, and every armed
\* poll that detects a target moves last_presence_time to that poll.
C5_InactivityStrict ==
  [][ /\ (pc = "armed" /\ pc' = "stopping" /\ clock - start_time < MAX_DURATION)
         => /\ label' = None
            /\ clock' - last_presence_time > NO_PRESENCE_TIMEOUT
            /\ last_presence_time >= start_time
      /\ (pc = "armed" /\ pc' = "armed" /\ label' # None)
         => /\ last_presence_time' >= clock
            /\ last_presence_time' <= clock'
      /\ (pc = "idle" /\ pc' = "armed") => last_presence_time' = clock'
    ]_vars

C5_Witness ==
  /\ pc = "stopping"
  /\ label = None
  /\ last_presence_time > start_time
  /\ clock - last_presence_time = NO_PRESENCE_TIMEOUT + 1
  /\ clock - start_time < MAX_DURATION

\* C6: at most one session is Active, and start_recording is only called
\* when no encoder is running.
C6_OneActiveSession ==
  /\ [](Cardinality(recording) <= 1)
  /\ [][started' # started => (recording = {} /\ recording' = {video_path'})]_vars

C6_Witness ==
  /\ started = 2
  /\ finalized = 1
  /\ run = 1
  /\ recording = {video_path}

\* C7: after N >= 1 finalizations the log has N + 1 lines, the first is the
\* header and no other line is.
C7_LogLines ==
  finalized >= 1 =>
    /\ log.exists
    /\ Len(log.lines) = finalized + 1
    /\ IsHeader(log.lines[1])
    /\ \A i \in Rows : ~IsHeader(log.lines[i])

\* Two finalizations so close together that a restart lies between them.
C7_Witness ==
  /\ run = 2
  /\ finalized = 2
  /\ pc = "remux"
  /\ clock - StartTime < 2 * (NO_PRESENCE_TIMEOUT + 1) + COOLDOWN
  /\ Len(log.lines) = 3

\* C8: within one run of the process, is_night_mode and last_check change
\* only in a tick of the idle loop at which more than check_interval has
\* passed since last_check, with no session Active.
C8_RefreshOnlyWhenDue ==
  [][ (pc # "done" /\ pc' # "done"
       /\ (is_night_mode' # is_night_mode \/ last_check' # last_check))
      => /\ pc = "idle"
         /\ recording = {}
         /\ clock - last_check > check_interval
         /\ last_check' = clock
    ]_vars

\* A session still running, in night mode, long after the refresh fell due.
C8_Witness ==
  /\ pc = "armed"
  /\ is_night_mode
  /\ clock - last_check > check_interval + NO_PRESENCE_TIMEOUT

\* C9: a tick in which the sensor reads active and the detector returns no
\* target leaves the loop idle and changes no file, no log row, not the flag
\* and not the encoder.
C9_NoMatchChangesNothing ==
  [][ (pc = "idle" /\ pc' # "done" /\ pir' /\ label' = None)
      => /\ pc' = "idle"
         /\ UNCHANGED << files, log, flag, recording, started >>
    ]_vars

C9_Witness ==
  /\ pc = "idle"
  /\ pir
  /\ label = None
  /\ started = 0
  /\ files = {}
  /\ ~flag

\* C10: a sample of mean luma equal to the threshold is day, one below it by
\* one is night.
C10_NightBoundary ==
  /\ brightness = {NightThreshold} => ~is_night_mode
  /\ brightness = {NightThreshold - 1} => is_night_mode

C10_Witness ==
  /\ brightness = {NightThreshold}
  /\ ~is_night_mode
  /\ ir_cut = "LOW"

\* C11: the detector returns the first box, in the model's order, whose label
\* is a target class, with that box's confidence, and no match exactly when
\* no box has a target label.
C11_FirstTarget ==
  pc = "detected" =>
    LET hits == { i \in 1..Len(boxes) : boxes[i].label \in {"person", "bird"} }
        k == CHOOSE i \in hits : \A j \in hits : i <= j
    IN  IF hits = {}
        THEN label = None /\ conf = None
        ELSE label = boxes[k].label /\ conf = boxes[k].conf

\* The first target is returned although a later one has more confidence.
C11_Witness ==
  /\ pc = "detected"
  /\ boxes = <<Person, Bird>>
  /\ label = "person"
  /\ conf = "0.45"

\* C14: the frame handed to the detector is enhanced exactly when the cached
\* mode is night.
C14_EnhancedIffNightMode ==
  pc \in {"preprocessed", "detected"} => (frame.enhanced <=> is_night_mode)

\* C14 (amended): the frame handed to the detector is enhanced exactly when
\* the cached mode is night and the frame itself is darker than the threshold.
C14_EnhancedIffNightModeAndDark ==
  pc \in {"preprocessed", "detected"} =>
    (frame.enhanced <=> (is_night_mode /\ frame.luma < NightThreshold))

C14_Witness ==
  /\ pc = "preprocessed"
  /\ is_night_mode
  /\ frame.luma >= NightThreshold
  /\ ~frame.enhanced

\* C12: until the remux of a session has been invoked and has returned, the
\* session's row has not been appended and the flag has not been removed.
C12_LogAndFlagAfterRemux ==
  pc \in {"stopping", "remux"} =>
    /\ flag
    /\ \A i \in Rows : log.lines[i][4] # ToMp4(video_path)

\* C13: whenever the loop is idle, about to capture a frame, the frame source
\* is started.
C13_CameraStartedWhenIdle ==
  pc = "idle" => camera = "started"

\* C15: the date directory of every working path is the date of the session's
\* timestamp.
C15_DirIsDateOfTimestamp ==
  \A p \in files : p.dir = DateOf(p.ts)

\* C16: a shutdown while armed runs the teardown (camera stopped, pins
\* released) and leaves the session as it is: no remux, no row, the raw file
\* still there; and the process that was shut down takes no further step of
\* the loop (what follows is a fresh start, which finalizes nothing either).
C16_ShutdownAbandonsSession ==
  [][ /\ (pc = "armed" /\ pc' = "done")
         => /\ camera' = "stopped"
            /\ ir_cut' = "unset"
            /\ video_path \in files'
            /\ UNCHANGED << log, files, finalized, remux_ok >>
      /\ pc = "done"
         => /\ pc' = "idle"
            /\ run' = run + 1
            /\ UNCHANGED << log, files, finalized, remux_ok >>
    ]_vars

\* After a shutdown in the middle of the first session: the raw file is an
\* orphan and the log has no row.
C16_Witness ==
  /\ pc = "done"
  /\ started = 1
  /\ finalized = 0
  /\ Len(log.lines) = 0
  /\ \E p \in files : p.ext = "h264"

\* C17: without a shutdown, every session that becomes armed is eventually
\* finalized (encoder stopped, row appended, flag removed) with the loop back
\* in idle, whatever the detector returns; and from the start of a session to
\* the end of its finalization no illumination refresh takes place.
C17_SessionIsFinalized ==
  /\ (pc = "armed") ~>
       (pc = "idle" /\ recording = {} /\ ~flag /\ finalized = started
        /\ Len(log.lines) = finalized + 1)
  /\ [][ (pc \in {"armed", "stopping", "remux", "remove"})
         => UNCHANGED << last_check, is_night_mode, brightness, ir_cut >>
       ]_vars

\* Back in idle after a session that ran into the duration cap.
C17_Witness ==
  /\ pc = "idle"
  /\ finalized = 1
  /\ started = 1
  /\ ~flag
  /\ clock - StartTime >= MAX_DURATION + COOLDOWN

\* C18: from the first refresh of a run on, the infrared-cut output is high
\* iff is_night_mode; and within a run neither of the two changes without the
\* other (the output leaving its undriven state at the first refresh apart).
C18_IrCutFollowsMode ==
  /\ [](brightness # {} =>
          /\ ir_cut \in {"HIGH", "LOW"}
          /\ ir_cut = "HIGH" <=> is_night_mode)
  /\ [][ (pc # "done" /\ pc' # "done")
         => /\ is_night_mode' # is_night_mode => ir_cut' # ir_cut
            /\ ir_cut' # ir_cut
               => (is_night_mode' # is_night_mode \/ ir_cut = "unset")
       ]_vars

\* A later refresh of the run has sampled a dark frame.
C18_Witness ==
  /\ pc = "idle"
  /\ last_check > StartTime
  /\ brightness = {NightThreshold - 1}
  /\ is_night_mode
  /\ ir_cut = "HIGH"

\* C19: every row carries the confidence of the detection that started its
\* session (the one whose label is in the clip path), the timestamp of that
\* start and the .mp4 form of the path built at that start; an armed poll
\* leaves confidence, timestamp and video_path alone, and moves
\* last_presence_time only to the time of a poll that detected something.
C19_RowIsOfTheStart ==
  /\ [](\A i \in Rows :
          LET row == log.lines[i] IN
          /\ row[1] = row[4].ts
          /\ row[4].ext = "mp4"
          /\ \E cands \in Candidates : \E k \in 1..Len(cands) :
               /\ cands[k].label = row[4].label
               /\ cands[k].conf = row[3])
  /\ [][ (pc = "armed" /\ pc' \in {"armed", "stopping"})
         => /\ UNCHANGED << confidence, timestamp, video_path >>
            /\ last_presence_time' # last_presence_time
               => (label' \in TARGET_CLASSES /\ last_presence_time' <= clock')
       ]_vars

\* A session started by a bird has just been logged with the bird's
\* confidence although its latest armed poll saw a person.
C19_Witness ==
  /\ pc = "remux"
  /\ conf = Person.conf
  /\ confidence = Bird.conf
  /\ log.lines[Len(log.lines)][3] = Bird.conf

\* C20: no two log rows carry the same clip path; a session that starts is
\* given a path that no logged session has; and the remux never writes over
\* a clip that is already there.
C20_PathsAreFresh ==
  /\ [](\A i, j \in Rows : i # j => log.lines[i][4] # log.lines[j][4])
  /\ [][ (started' # started)
         => \A i \in Rows : log.lines[i][4] # ToMp4(video_path') ]_vars
  /\ [][ (pc = "remux" /\ pc' = "remove")
         => ToMp4(video_path) \notin files ]_vars

\* Two sessions of one run, started by the same class, both logged.
C20_Witness ==
  /\ run = 1
  /\ Len(log.lines) = 3
  /\ log.lines[2][4].label = log.lines[3][4].label
  /\ log.lines[2][4].dir = log.lines[3][4].dir
  /\ log.lines[2][4].ts < log.lines[3][4].ts

====
